---------------------------- MODULE Spec2Model ----------------------------
(***************************************************************************)
(* A model of the Othello player of src/player.cpp: the constructor with   *)
(* its opening precomputation (computeOpening), doMove with its iterative  *)
(* deepening loop, the root search findMinimaxMove, the recursive          *)
(* minimaxHelper and the evaluator with its transposition table.           *)
(*                                                                         *)
(* The Board class (board.h / board.cpp) and the header player.h are not   *)
(* part of src/; the board is modelled as the 8x8 Othello board the        *)
(* masks EDGES and CORNERS of player.cpp are written for.                  *)
(***************************************************************************)
EXTENDS Integers, Sequences, FiniteSets

\* ------------------------------------------------------------------ bounds
\* doMove calls the referee makes in one explored game.
MaxCalls == 1
\* Iterations of the iterative-deepening loop of one doMove call; the last
\* allowed iteration is the one at whose end the clock has run out.
MaxIters == 2
\* Stands for the 25000 of computeOpening (player.cpp line 284).
OpeningBound == 3
\* Stands for the 100000 of evaluate (player.cpp line 263).
TableBound == 5

\* --------------------------------------------------------------- constants
BLACK == "BLACK"
WHITE == "WHITE"
NULL == -1
INT_MAX == 2147483647
INT_MIN == (-2147483647) - 1
\* player.h (not in src/): the default search depth and the two weights.
MINIMAXDEPTH == 2
EDGEWEIGHT == 2
CORNERWEIGHT == 5
\* The remaining game time (ms) the referee may report.
MsLeftValues == {-1, 0, 1, 499, 500}

Max(a, b) == IF a >= b THEN a ELSE b
Min(a, b) == IF a <= b THEN a ELSE b

\* ------------------------------------------------------------------- board
\* bitset<64> values are the sets of their 1 bits; bit x + 8*y is square (x, y).
BitsOfByte(v) ==
  {j \in 0..7 : (v \div (IF j = 0 THEN 1 ELSE IF j = 1 THEN 2 ELSE IF j = 2 THEN 4
                          ELSE IF j = 3 THEN 8 ELSE IF j = 4 THEN 16
                          ELSE IF j = 5 THEN 32 ELSE IF j = 6 THEN 64 ELSE 128)) % 2 = 1}
\* The bits of a 64-bit value given by its bytes, least significant first.
BitsOfBytes(bytes) == UNION {{8 * (k - 1) + j : j \in BitsOfByte(bytes[k])} : k \in 1..8}
\* 0xff818181818181ffULL
EDGES == BitsOfBytes(<<255, 129, 129, 129, 129, 129, 129, 255>>)
\* 0x8100000000000081ULL
CORNERS == BitsOfBytes(<<129, 0, 0, 0, 0, 0, 0, 129>>)

Other(s) == IF s = BLACK THEN WHITE ELSE BLACK

\* new Board(): the four centre squares, white on (3,3),(4,4), black on (3,4),(4,3).
NewBoard == [black |-> {3 + 8 * 4, 4 + 8 * 3},
             taken |-> {3 + 8 * 3, 4 + 8 * 4, 3 + 8 * 4, 4 + 8 * 3}]

Stones(b, s) == IF s = BLACK THEN b.black ELSE b.taken \ b.black

Dirs == {<<dx, dy>> \in {-1, 0, 1} \X {-1, 0, 1} : dx # 0 \/ dy # 0}

\* The opponent stones from (x, y) on in direction (dx, dy), when they end at one
\* of the mover's own stones; {} otherwise.
RECURSIVE Ray(_, _, _, _, _, _, _)
Ray(own, opp, x, y, dx, dy, acc) ==
  IF x < 0 \/ x > 7 \/ y < 0 \/ y > 7 THEN {}
  ELSE LET c == x + 8 * y IN
       IF c \in opp THEN Ray(own, opp, x + dx, y + dy, dx, dy, acc \cup {c})
       ELSE IF c \in own THEN acc
       ELSE {}

Flips(b, s, c) ==
  IF c \in b.taken THEN {}
  ELSE LET own == Stones(b, s)
           opp == Stones(b, Other(s))
       IN UNION {Ray(own, opp, (c % 8) + d[1], (c \div 8) + d[2], d[1], d[2], {}) : d \in Dirs}

\* Board::checkMove for a square.
CheckMove(b, s, c) == Flips(b, s, c) # {}

\* The squares in the order getPossibleMoves visits them: x outer, y inner.
SquareOrder == [k \in 1..64 |-> ((k - 1) \div 8) + 8 * ((k - 1) % 8)]

\* Board::getPossibleMoves(side, moves): the legal moves, in enumeration order.
GetPossibleMoves(b, s) ==
  LET opp == Stones(b, Other(s))
      near(c) == \E d \in Dirs :
                   LET x == (c % 8) + d[1]
                       y == (c \div 8) + d[2]
                   IN x >= 0 /\ x <= 7 /\ y >= 0 /\ y <= 7 /\ (x + 8 * y) \in opp
  IN SelectSeq(SquareOrder, LAMBDA c : c \notin b.taken /\ near(c) /\ CheckMove(b, s, c))

\* Board::doMove(m, side): a NULL or illegal move leaves the board as it is.
BoardDoMove(b, mv, s) ==
  IF mv = NULL THEN b
  ELSE LET f == Flips(b, s, mv) IN
       IF f = {} THEN b
       ELSE [black |-> IF s = BLACK THEN b.black \cup f \cup {mv} ELSE b.black \ f,
             taken |-> b.taken \cup {mv}]

\* Board::copy(): an independent board with the same squares.
BoardCopy(b) == [black |-> b.black, taken |-> b.taken]

\* Board::count(side)
Count(b, s) == Cardinality(Stones(b, s))


\* ------------------------------------------------------------------- state
VARIABLES
  side,            \* _side
  testingMinimax,  \* testingMinimax
  board,           \* *_board, the held board
  heap,            \* _table and the allocation bookkeeping, see NewHeap
  positions,       \* computeOpening: the work queue of <<side, board>> pairs
  pc,              \* where the program is: "opening", "idle", "loop", "fixed", "apply", "crashed"
  opponentsMove,   \* doMove: the parameter opponentsMove
  msLeft,          \* doMove: the parameter msLeft
  time_allowed,    \* doMove: time_allowed
  elapsed,         \* doMove: (clock() - start) in ms, as the loop condition last read it
  depth,           \* doMove: depth
  m,               \* doMove: m
  alpha,           \* findMinimaxMove: alpha when the last search returned
  searched,        \* the depth the last findMinimaxMove of this call was given (0: none yet)
  iters,           \* findMinimaxMove calls made by this doMove call
  calls            \* doMove calls returned so far

vars == <<side, testingMinimax, board, heap, positions, pc, opponentsMove, msLeft,
          time_allowed, elapsed, depth, m, alpha, searched, iters, calls>>

_opponentSide == Other(side)

\* -------------------------------------------------------------- evaluator
\* Bits base .. base+15 of a bitset, as a number below 65536.
Bit(bits, i, w) == IF i \in bits THEN w ELSE 0
ChunkVal(bits, base) ==
  (((Bit(bits, base, 1) + Bit(bits, base + 1, 2))
    + (Bit(bits, base + 2, 4) + Bit(bits, base + 3, 8)))
   + ((Bit(bits, base + 4, 16) + Bit(bits, base + 5, 32))
      + (Bit(bits, base + 6, 64) + Bit(bits, base + 7, 128))))
  + (((Bit(bits, base + 8, 256) + Bit(bits, base + 9, 512))
      + (Bit(bits, base + 10, 1024) + Bit(bits, base + 11, 2048)))
     + ((Bit(bits, base + 12, 4096) + Bit(bits, base + 13, 8192))
        + (Bit(bits, base + 14, 16384) + Bit(bits, base + 15, 32768))))

\* bitset::to_ullong.  64 bits do not fit an integer of the model checker: the
\* value c0 + c1 * 2^16 + c2 * 2^32 + c3 * 2^48 of the four 16-bit chunks is held
\* as its base-10000 limbs, least significant first, without leading zero
\* limbs, by long multiplication with
\*   2^16 = 6 5536,  2^32 = 42 9496 7296,  2^48 = 281 4749 7671 0656.
to_ullong(bits) ==
  LET c0 == ChunkVal(bits, 0)
      c1 == ChunkVal(bits, 16)
      c2 == ChunkVal(bits, 32)
      c3 == ChunkVal(bits, 48)
      s0 == c0 + c1 * 5536 + c2 * 7296 + c3 * 656
      s1 == c1 * 6 + c2 * 9496 + c3 * 7671 + (s0 \div 10000)
      s2 == c2 * 42 + c3 * 4749 + (s1 \div 10000)
      s3 == c3 * 281 + (s2 \div 10000)
      s4 == s3 \div 10000
      all == <<s0 % 10000, s1 % 10000, s2 % 10000, s3 % 10000, s4>>
      top == {k \in 1..5 : all[k] # 0}
  IN SubSeq(all, 1, Cardinality({k \in 1..5 : \E j \in top : k <= j}))

\* The characters ('0' is 48) of a limb: all four digits, or without leading zeros.
LimbDigits(v, all) ==
  LET four == <<48 + (v \div 1000), 48 + ((v \div 100) % 10),
                48 + ((v \div 10) % 10), 48 + (v % 10)>>
  IN IF all \/ v >= 1000 THEN four
     ELSE IF v >= 100 THEN SubSeq(four, 2, 4)
     ELSE IF v >= 10 THEN SubSeq(four, 3, 4)
     ELSE SubSeq(four, 4, 4)

RECURSIVE LimbsToString(_, _)
LimbsToString(limbs, i) ==
  IF i = 0 THEN <<>>
  ELSE LimbDigits(limbs[i], i < Len(limbs)) \o LimbsToString(limbs, i - 1)

\* std::to_string(unsigned long long): the decimal numeral, as the sequence of
\* its characters' codes.
to_string(limbs) == IF limbs = <<>> THEN <<48>> ELSE LimbsToString(limbs, Len(limbs))

\* A key that leaves the taken squares out.
HashOf_AgentOnly(ai_side, total) == to_string(ai_side)

\* string hash = to_string(ai_side) + ", " + to_string(total)
HashOf(ai_side, total) == to_string(ai_side) \o <<44, 32>> \o to_string(total)

\* The key evaluate looks a board up under.
Hash(b) == HashOf(to_ullong(Stones(b, side)), to_ullong(b.taken))

\* std::string operator< : lexicographic on the characters.
StrLess(a, b) ==
  LET n == Min(Len(a), Len(b))
      differ == \E i \in 1..n : a[i] # b[i]
      first == CHOOSE i \in 1..n : a[i] # b[i] /\ \A j \in 1..(i - 1) : a[j] = b[j]
  IN IF differ THEN a[first] < b[first] ELSE Len(a) < Len(b)

\* _table is held as its entries [key, score] in the order the container
\* iterates them: by ascending key.
TableFind(t, h) == {i \in 1..Len(t) : t[i].key = h}

\* _table[hash] = score, for a key that is not in the table.
TableInsert(t, h, score) ==
  LET lower == SelectSeq(t, LAMBDA e : StrLess(e.key, h))
      upper == SelectSeq(t, LAMBDA e : ~StrLess(e.key, h))
  IN lower \o <<[key |-> h, score |-> score]>> \o upper

\* _table.erase(_table.begin())
TableEraseBegin(t) == Tail(t)

\* The size test off by one.
TableFull_OffByOne(t) == Len(t) > TableBound

\* _table.size() >= 100000
TableFull(t) == Len(t) >= TableBound

\* The score evaluate computes on a miss (lines 233-260).
Heuristic(b) ==
  LET white == b.taken \ b.black
      score == (Cardinality(b.black) - Cardinality(white))
               + EDGEWEIGHT * Cardinality(b.black \cap EDGES)
               + CORNERWEIGHT * Cardinality(b.black \cap CORNERS)
               - EDGEWEIGHT * Cardinality(white \cap EDGES)
               - CORNERWEIGHT * Cardinality(white \cap CORNERS)
  IN IF side = WHITE THEN score * (-1) ELSE score

\* The heap of a fresh Player: the empty _table, and the bookkeeping the
\* properties are stated with:
\*   order      the keys of _table, oldest insertion first
\*   fifo       every erase so far removed the oldest key
\*   evictions  erases so far
\*   hits       lookups that found their key so far
\*   exact      every evaluate so far returned Heuristic of its board
\*   sized      every evaluate so far left the size as it was (a hit, a miss
\*              on a full table) or one larger (a miss), and within the bound
\*   boards, moves  Board and Move objects allocated and not deleted
NewHeap == [table |-> <<>>, order |-> <<>>, fifo |-> TRUE, evictions |-> 0, hits |-> 0,
            exact |-> TRUE, sized |-> TRUE, boards |-> 0, moves |-> 0]

\* The else branch of evaluate (lines 229-270) for a board whose key is hash.
EvaluateKeyed(b, st, hash) ==
  LET hit == TableFind(st.table, hash)
  IN IF hit # {}
     THEN LET v == st.table[CHOOSE i \in hit : TRUE].score
          IN [score |-> v,
              st |-> [st EXCEPT !.exact = @ /\ (v = Heuristic(b)),
                                !.hits = @ + 1]]
     ELSE LET score == Heuristic(b)
              full == TableFull(st.table)
              t1 == IF full THEN TableEraseBegin(st.table) ELSE st.table
              t2 == TableInsert(t1, hash, score)
              victim == st.table[1].key
              o1 == IF full THEN SelectSeq(st.order, LAMBDA k : k # victim) ELSE st.order
          IN [score |-> score,
              st |-> [st EXCEPT !.table = t2,
                                !.order = Append(o1, hash),
                                !.fifo = @ /\ (full => victim = Head(st.order)),
                                !.evictions = @ + (IF full THEN 1 ELSE 0),
                                !.sized = /\ @
                                          /\ Len(t2) <= TableBound
                                          /\ Len(t2) = IF Len(st.table) = TableBound
                                                       THEN TableBound
                                                       ELSE Len(st.table) + 1]]

\* Player::evaluate(b) on heap st: [score, st].  The moves the mobility block
\* (lines 245-252) generates are all deleted in it and its count is unused.
\* The key is computed once (line 228) and then used.
Evaluate(b, st) ==
  IF testingMinimax
  THEN [score |-> Count(b, side) - Count(b, _opponentSide), st |-> st]
  ELSE CHOOSE r \in {EvaluateKeyed(b, st, hash) : hash \in {Hash(b)}} : TRUE

\* ------------------------------------------------------------------ search
\* One child of a node (lines 170-171, 188-189, 296-297): the copy of board b
\* with move mv played by s; b itself is not touched.
ChildBoard(b, mv, s) == BoardDoMove(BoardCopy(b), mv, s)

\* The root move played on the held board itself, no copy taken.
RootChild_NoCopy(held, mv) ==
  [held |-> BoardDoMove(held, mv, side), next |-> BoardDoMove(held, mv, side)]

\* Lines 114-115 of findMinimaxMove: what the held board and nextBoard are
\* after  nextBoard = _board->copy(); nextBoard->doMove(*it, _side).
RootChild(held, mv) == [held |-> held, next |-> ChildBoard(held, mv, side)]

\* if (beta <= alpha) break;
Cutoff(a, b) == b <= a

\* alpha overwritten by the last score.
RaiseAlpha_Overwrite(a, score) == score

\* alpha = max(alpha, score)
RaiseAlpha(a, score) == Max(a, score)

\* beta = min(beta, score)
LowerBeta(bt, score) == Min(bt, score)

\* Player::minimaxHelper(depth, b, s, alpha, beta) on heap st: [score, st].
\* MaxLoop and MinLoop are its two for loops from move i on.
RECURSIVE MinimaxHelper(_, _, _, _, _, _)
RECURSIVE MaxLoop(_, _, _, _, _, _, _)
RECURSIVE MinLoop(_, _, _, _, _, _, _)

MaxLoop(d, b, moves, i, a, bt, st) ==
  IF i > Len(moves) THEN [score |-> a, st |-> st]
  ELSE LET nextBoard == ChildBoard(b, moves[i], side)
           r == MinimaxHelper(d - 1, nextBoard, _opponentSide, a, bt,
                              [st EXCEPT !.boards = @ + 1])
           a2 == RaiseAlpha(a, r.score)
       IN IF Cutoff(a2, bt)
          THEN [score |-> a2, st |-> r.st]
          ELSE MaxLoop(d, b, moves, i + 1, a2, bt,
                       [r.st EXCEPT !.boards = @ - 1, !.moves = @ - 1])

MinLoop(d, b, moves, i, a, bt, st) ==
  IF i > Len(moves) THEN [score |-> bt, st |-> st]
  ELSE LET nextBoard == ChildBoard(b, moves[i], _opponentSide)
           r == MinimaxHelper(d - 1, nextBoard, side, a, bt,
                              [st EXCEPT !.boards = @ + 1])
           b2 == LowerBeta(bt, r.score)
       IN IF Cutoff(a, b2)
          THEN [score |-> b2, st |-> r.st]
          ELSE MinLoop(d, b, moves, i + 1, a, b2,
                       [r.st EXCEPT !.boards = @ - 1, !.moves = @ - 1])

MinimaxHelper(d, b, s, a, bt, st) ==
  IF d = 0 THEN Evaluate(b, st)
  ELSE LET moves == GetPossibleMoves(b, s) IN
       IF moves = <<>> THEN Evaluate(b, st)
       ELSE IF s = side
       THEN MaxLoop(d, b, moves, 1, INT_MIN, bt, [st EXCEPT !.moves = @ + Len(moves)])
       ELSE MinLoop(d, b, moves, 1, a, INT_MAX, [st EXCEPT !.moves = @ + Len(moves)])

\* The for loop of findMinimaxMove from move i on: [best, alpha, held, st].
RECURSIVE RootLoop(_, _, _, _, _, _, _)
RootLoop(d, held, moves, i, a, best, st) ==
  IF i > Len(moves) THEN [best |-> best, alpha |-> a, held |-> held, st |-> st]
  ELSE LET c == RootChild(held, moves[i])
           r == MinimaxHelper(d - 1, c.next, _opponentSide, a, INT_MAX,
                              [st EXCEPT !.boards = @ + 1])
           better == r.score >= a
           a2 == IF better THEN r.score ELSE a
           best2 == IF better THEN moves[i] ELSE best
       IN RootLoop(d, c.held, moves, i + 1, a2, best2,
                   [r.st EXCEPT !.boards = @ - 1,
                                !.moves = IF moves[i] # best2 THEN @ - 1 ELSE @])

\* Player::findMinimaxMove(depth) on held board and heap st.
FindMinimaxMove(d, held, st) ==
  LET moves == GetPossibleMoves(held, side)
  IN RootLoop(d, held, moves, 1, INT_MIN, NULL, [st EXCEPT !.moves = @ + Len(moves)])

\* ----------------------------------------------------------------- actions
\* Player::Player(side) up to the loop of computeOpening (lines 11-23, 279-280):
\* the held board and its copy in the work queue are the two live boards.
Init ==
  /\ side \in {BLACK, WHITE}
  /\ testingMinimax = FALSE
  /\ board = NewBoard
  /\ heap = [NewHeap EXCEPT !.boards = 2]
  /\ positions = <<<<side, BoardCopy(NewBoard)>>>>
  /\ pc = "opening"
  /\ opponentsMove = NULL
  /\ msLeft = 0
  /\ time_allowed = 0
  /\ elapsed = 0
  /\ depth = 0
  /\ m = NULL
  /\ alpha = 0
  /\ searched = 0
  /\ iters = 0
  /\ calls = 0

\* The loop test off by one.
OpeningContinues_OffByOne(t) == Len(t) <= OpeningBound

\* while (_table.size() < 25000)
OpeningContinues(t) == Len(t) < OpeningBound

\* The children computeOpening pushes for curr and its moves (lines 292-300).
ChildrenOf(curr, moves) ==
  [i \in 1..Len(moves) |-> <<Other(curr[1]), ChildBoard(curr[2], moves[i], curr[1])>>]

\* One iteration of the first loop of computeOpening (lines 284-303).
\* positions.front() of an empty vector is undefined; the run is then lost.
OpeningStep ==
  /\ pc = "opening"
  /\ OpeningContinues(heap.table)
  /\ IF positions = <<>>
     THEN /\ pc' = "crashed"
          /\ UNCHANGED <<heap, positions>>
     ELSE \E curr \in {Head(positions)} :
          \E e \in {Evaluate(curr[2], heap)} :
          \E moves \in {GetPossibleMoves(curr[2], curr[1])} :
            /\ positions' = Tail(positions) \o ChildrenOf(curr, moves)
            /\ heap' = [e.st EXCEPT !.boards = @ + Len(moves) - 1,
                                    !.moves = @ + Len(moves)]
            /\ pc' = "opening"
  /\ UNCHANGED <<side, testingMinimax, board, opponentsMove, msLeft, time_allowed,
                 elapsed, depth, m, alpha, searched, iters, calls>>

\* The second loop of computeOpening (lines 305-309) and the constructor's return.
OpeningRelease ==
  /\ pc = "opening"
  /\ ~OpeningContinues(heap.table)
  /\ positions' = <<>>
  /\ heap' = [heap EXCEPT !.boards = @ - Len(positions)]
  /\ pc' = "idle"
  /\ UNCHANGED <<side, testingMinimax, board, opponentsMove, msLeft, time_allowed,
                 elapsed, depth, m, alpha, searched, iters, calls>>

\* test_minimax.cpp sets testingMinimax on the player it has constructed, before
\* it calls doMove (line 12).
SetTestingMinimax ==
  /\ pc = "idle"
  /\ calls = 0
  /\ ~testingMinimax
  /\ testingMinimax' = TRUE
  /\ UNCHANGED <<side, board, heap, positions, pc, opponentsMove, msLeft, time_allowed,
                 elapsed, depth, m, alpha, searched, iters, calls>>

\* What the referee may report as the opponent's last move: NULL on black's
\* first move and when the opponent had to pass, else a legal move.
RefereeMoves ==
  LET legal == GetPossibleMoves(board, _opponentSide)
  IN IF legal = <<>> \/ (side = BLACK /\ board = NewBoard)
     THEN {NULL}
     ELSE {legal[i] : i \in 1..Len(legal)}

\* double time_allowed = (msLeft) / (500): the division is the int one.
TimeAllowed(ms) == ms \div 500

\* doMove, lines 52-64: the opponent's move is played on the held board and
\* the branch on msLeft is taken; start = clock() makes the elapsed time 0.
DoMoveCall(opp, ms) ==
  /\ pc = "idle"
  /\ calls < MaxCalls
  /\ opponentsMove' = opp
  /\ msLeft' = ms
  /\ board' = IF opp # NULL THEN BoardDoMove(board, opp, _opponentSide) ELSE board
  /\ m' = NULL
  /\ IF ms > 0
     THEN /\ pc' = "loop"
          /\ time_allowed' = TimeAllowed(ms)
          /\ depth' = MINIMAXDEPTH
     ELSE /\ pc' = "fixed"
          /\ time_allowed' = 0
          /\ depth' = 0
  /\ elapsed' = 0
  /\ iters' = 0
  /\ searched' = 0
  /\ alpha' = 0
  /\ UNCHANGED <<side, testingMinimax, heap, positions, calls>>

\* while ((double)(clock() - start) / (CLOCKS_PER_SEC / 1000) < time_allowed)
LoopCondition(e, allowed) == e < allowed

\* The depth the loop body passes to findMinimaxMove (lines 70-71).
LoopDepth == IF testingMinimax THEN 2 ELSE depth

\* One iteration of the while loop (lines 69-72): a whole findMinimaxMove, then
\* the clock is read again; it has advanced by any amount (the last iteration
\* the model explores is one that uses the time up).
LoopIterate ==
  /\ pc = "loop"
  /\ LoopCondition(elapsed, time_allowed)
  /\ iters < MaxIters
  /\ \E r \in {FindMinimaxMove(LoopDepth, board, heap)} :
       /\ m' = r.best
       /\ alpha' = r.alpha
       /\ board' = r.held
       /\ heap' = r.st
  /\ searched' = LoopDepth
  /\ depth' = IF testingMinimax THEN depth ELSE depth + 1
  /\ iters' = iters + 1
  /\ \E e \in elapsed..time_allowed :
       /\ (iters + 1 = MaxIters) => ~LoopCondition(e, time_allowed)
       /\ elapsed' = e
  /\ UNCHANGED <<side, testingMinimax, positions, pc, opponentsMove, msLeft,
                 time_allowed, calls>>

\* The loop condition is false: on to line 81.
LoopExit ==
  /\ pc = "loop"
  /\ ~LoopCondition(elapsed, time_allowed)
  /\ pc' = "apply"
  /\ UNCHANGED <<side, testingMinimax, board, heap, positions, opponentsMove, msLeft,
                 time_allowed, elapsed, depth, m, alpha, searched, iters, calls>>

\* The depth of the else branch (lines 78-79).
FixedDepth == IF testingMinimax THEN 2 ELSE MINIMAXDEPTH

\* The else branch of doMove: one search.
FixedSearch ==
  /\ pc = "fixed"
  /\ \E r \in {FindMinimaxMove(FixedDepth, board, heap)} :
       /\ m' = r.best
       /\ alpha' = r.alpha
       /\ board' = r.held
       /\ heap' = r.st
  /\ searched' = FixedDepth
  /\ iters' = iters + 1
  /\ pc' = "apply"
  /\ UNCHANGED <<side, testingMinimax, positions, opponentsMove, msLeft,
                 time_allowed, elapsed, depth, calls>>

\* Lines 81-82: _board->doMove(m, _side); return m.  m stays as the value
\* returned, the other locals end with the call.
ApplyAndReturn ==
  /\ pc = "apply"
  /\ board' = BoardDoMove(board, m, side)
  /\ pc' = "idle"
  /\ calls' = calls + 1
  /\ opponentsMove' = NULL
  /\ msLeft' = 0
  /\ time_allowed' = 0
  /\ elapsed' = 0
  /\ depth' = 0
  /\ alpha' = 0
  /\ searched' = 0
  /\ iters' = 0
  /\ UNCHANGED <<side, testingMinimax, heap, positions, m>>

Next ==
  \/ OpeningStep
  \/ OpeningRelease
  \/ SetTestingMinimax
  \/ \E ms \in MsLeftValues : \E opp \in RefereeMoves : DoMoveCall(opp, ms)
  \/ LoopIterate
  \/ LoopExit
  \/ FixedSearch
  \/ ApplyAndReturn

Spec == Init /\ [][Next]_vars

\* The constructor runs computeOpening to its end: while one of its two loops
\* can take a step, it does.
FairSpec ==
  /\ Spec
  /\ WF_vars(OpeningStep)
  /\ WF_vars(OpeningRelease)

\* -------------------------------------------------------------- reference
\* The value evaluate is specified to return for a board: the material
\* difference in testing mode, the heuristic otherwise.
StaticScore(b) ==
  IF testingMinimax THEN Count(b, side) - Count(b, _opponentSide) ELSE Heuristic(b)

\* Unpruned depth-limited minimax: a node with no depth left or no legal move
\* is a leaf; the agent's side maximizes, the opponent minimizes.
RECURSIVE FullMinimax(_, _, _)
RECURSIVE FullValues(_, _, _, _, _)
FullValues(d, b, s, moves, i) ==
  IF i > Len(moves) THEN <<>>
  ELSE <<FullMinimax(d - 1, ChildBoard(b, moves[i], s), Other(s))>>
       \o FullValues(d, b, s, moves, i + 1)

FullMinimax(d, b, s) ==
  IF d = 0 THEN StaticScore(b)
  ELSE LET moves == GetPossibleMoves(b, s) IN
       IF moves = <<>> THEN StaticScore(b)
       ELSE LET vals == FullValues(d, b, s, moves, 1) IN
            IF s = side
            THEN CHOOSE v \in {vals[i] : i \in 1..Len(vals)} :
                   \A j \in 1..Len(vals) : vals[j] <= v
            ELSE CHOOSE v \in {vals[i] : i \in 1..Len(vals)} :
                   \A j \in 1..Len(vals) : vals[j] >= v

RootMoves == GetPossibleMoves(board, side)

\* The unpruned scores of the root moves of a search of depth d on the held board.
RootValues(d) == FullValues(d, board, side, RootMoves, 1)

\* A doMove call has finished its searches and is about to play m.
Searched == pc = "apply" /\ searched >= 1

\* The boards the evaluator is probed on in a state: the held board, the
\* queued ones and the children of the held board for either side.
ProbeBoards ==
  {board}
  \cup {positions[i][2] : i \in 1..Len(positions)}
  \cup UNION {LET moves == GetPossibleMoves(board, s)
              IN {ChildBoard(board, moves[i], s) : i \in 1..Len(moves)} :
              s \in {BLACK, WHITE}}

\* ------------------------------------------------------------------ claims
\* C1: when doMove is about to return (line 81), for every msLeft: if the
\* agent has a legal move on the held board (the opponent's move applied), m is
\* one of the agent's legal moves, and m is NULL only if there is none.
C1_ReturnsLegalMove ==
  pc = "apply" =>
    IF RootMoves # <<>>
    THEN m # NULL /\ \E i \in 1..Len(RootMoves) : RootMoves[i] = m
    ELSE m = NULL

\* C2: the move a search of depth d returns has the maximal unpruned minimax
\* score among the root moves, and is the last enumerated of those with it.
C2_RootMoveIsLastMaximal ==
  (Searched /\ RootMoves # <<>>) =>
    LET vals == RootValues(searched)
    IN \E i \in 1..Len(RootMoves) :
         /\ RootMoves[i] = m
         /\ \A j \in 1..Len(vals) : vals[j] <= vals[i]
         /\ \A j \in (i + 1)..Len(vals) : vals[j] < vals[i]

C4_EvictsOldest == heap.fifo

\* C5: the table never holds more than its bound; every evaluate so far left
\* its size unchanged on a hit and on a miss at the bound, and one larger on
\* any other miss; and the same holds of one more evaluate on any probe board.
C5_TableWithinBound ==
  /\ Len(heap.table) <= TableBound
  /\ heap.sized
  /\ Len(heap.order) = Len(heap.table)
  /\ ~testingMinimax =>
       \A b \in ProbeBoards :
         LET r == Evaluate(b, heap)
             hit == TableFind(heap.table, Hash(b)) # {}
         IN /\ Len(r.st.table) <= TableBound
            /\ hit => r.st.table = heap.table
            /\ (~hit /\ Len(heap.table) = TableBound) =>
                 /\ Len(r.st.table) = TableBound
                 /\ Cardinality({e \in 1..Len(heap.table) :
                                   TableFind(r.st.table, heap.table[e].key) = {}}) = 1
            /\ (~hit /\ Len(heap.table) < TableBound) =>
                 Len(r.st.table) = Len(heap.table) + 1

\* The table is at its bound after an eviction, and a probe board misses it.
C5_Witness ==
  /\ Len(heap.table) = TableBound
  /\ heap.evictions > 0
  /\ heap.hits > 0
  /\ ~testingMinimax
  /\ \E b \in ProbeBoards : TableFind(heap.table, Hash(b)) = {}

\* C6: computeOpening terminates; it never reads an empty work queue; the
\* table never exceeds the precomputation bound while it runs; and when it
\* returns the table holds exactly the bound, the queue is empty and the held
\* board is the only board left allocated.
C6_OpeningTerminates ==
  /\ <>(pc = "idle")
  /\ [](pc # "crashed")
  /\ [](pc = "opening" => Len(heap.table) <= OpeningBound)
  /\ [][(pc = "opening" /\ pc' # "opening") =>
          /\ pc' = "idle"
          /\ Len(heap'.table) = OpeningBound
          /\ positions' = <<>>
          /\ heap'.boards = 1]_vars

\* The constructor has returned: the table is at the precomputation bound,
\* positions were expanded and every queued board was released.
C6_Witness ==
  /\ pc = "idle"
  /\ calls = 0
  /\ Len(heap.table) = OpeningBound
  /\ heap.moves > 0
  /\ heap.boards = 1
  /\ positions = <<>>

\* C7: a doMove call with msLeft > 0 outside testing mode has, when it is about
\* to return, run searches at depths MINIMAXDEPTH, MINIMAXDEPTH + 1, ..., the
\* last one ending with the time used up, and m is the move of the deepest one.
C7_DeepeningReturnsLastIteration ==
  (pc = "apply" /\ msLeft > 0 /\ ~testingMinimax) =>
    /\ iters >= 1
    /\ searched = MINIMAXDEPTH + iters - 1
    /\ depth = MINIMAXDEPTH + iters
    /\ ~LoopCondition(elapsed, time_allowed)
    /\ m = FindMinimaxMove(searched, board, heap).best

\* C8: in a doMove call the held board changes only by the opponent's reported
\* move, played once for the opponent's side at the call (no change when none is
\* reported), and by the chosen move, played once for the agent's side at the
\* return; the searches leave it unchanged.
C8_BoardFrame ==
  [][/\ (pc = "idle" /\ pc' # "idle") =>
          /\ board' = IF opponentsMove' = NULL THEN board
                      ELSE BoardDoMove(board, opponentsMove', _opponentSide)
          /\ opponentsMove' # NULL =>
               (board' # board /\ opponentsMove' \in Stones(board', _opponentSide))
     /\ (pc \in {"loop", "fixed"}) => board' = board
     /\ (pc = "apply") =>
          /\ board' = BoardDoMove(board, m, side)
          /\ m # NULL => (board' # board /\ m \in Stones(board', side))
     /\ (pc = "idle" /\ pc' = "idle") => board' = board]_vars

\* A call that was given an opponent's move has searched and played its own.
C8_Witness ==
  /\ pc = "idle"
  /\ calls >= 1
  /\ side = WHITE
  /\ m # NULL
  /\ m \in Stones(board, side)
  /\ heap.boards > 1

\* C9: a search step leaves as many board copies allocated as it found, and
\* of the moves it generated only the one it returns.
C9_SearchReleasesCopies ==
  [][(pc \in {"loop", "fixed"} /\ iters' = iters + 1) =>
       /\ heap'.boards = heap.boards
       /\ heap'.moves = heap.moves + (IF m' # NULL THEN 1 ELSE 0)]_vars

\* C10: in heuristic mode every evaluate so far returned Heuristic of its
\* board; every entry found for a probe board is Heuristic of that board; and
\* evaluating a probe board twice gives the same score both times, the second
\* call finding the entry and leaving the table as it is.
C10_EvaluateIsHeuristic ==
  /\ heap.exact
  /\ ~testingMinimax =>
       \A b \in ProbeBoards :
         LET r1 == Evaluate(b, heap)
             r2 == Evaluate(b, r1.st)
         IN /\ r1.score = Heuristic(b)
            /\ r2.score = r1.score
            /\ TableFind(r1.st.table, Hash(b)) # {}
            /\ r2.st.table = r1.st.table
            /\ r2.st.order = r1.st.order

\* Lookups have found their key after entries were evicted.
C10_Witness ==
  /\ ~testingMinimax
  /\ heap.hits > 0
  /\ heap.evictions > 0
  /\ \E b \in ProbeBoards : TableFind(heap.table, Hash(b)) # {}

=============================================================================
